---- MODULE Spec2Model ----
(***************************************************************************)
(* Decision-tree guessing game (TreeNode.py): the split selector, the      *)
(* recursive tree builder and the interactive traversal of play_game.      *)
(*                                                                         *)
(* Encoding of Python values:                                              *)
(*   - a str that is stripped is a sequence of one-character strings;      *)
(*     labels and column names are plain strings;                          *)
(*   - an Optional is None (the empty tuple) or <<v>>;                     *)
(*   - a list is a sequence; a row (dict) is a function on column names.   *)
(***************************************************************************)
EXTENDS Integers, Sequences, FiniteSets, TLC

VARIABLES rows, classifications, tree, pc, node, guesses, guessed_elements,
          idx, outcome, winner, transcript, games, previous

vars == <<rows, classifications, tree, pc, node, guesses, guessed_elements,
          idx, outcome, winner, transcript, games, previous>>

None == <<>>
Some(x) == <<x>>

\* Python truthiness of an Optional[str]: None and '' are both falsy.
falsy(opt) == opt = None \/ opt[1] = ""

----------------------------------------------------------------------------
(* Inputs *)

label_col == "label"

MaxRows == 3
MaxGameRows == 3
MaxGames == 2

Labels == {"cat", "dog"}
Whitespace == {" "}
RawValues == {<<" ", "0">>, <<"1">>, <<"x">>}
BinaryValues == {<<" ", "0">>, <<"1">>}
FeatureLists ==
    {<<>>, <<"legs">>, <<"">>, <<"legs", "legs">>,
     <<"legs", "wings">>, <<"", "legs">>}
GameFeatureLists == {<<>>, <<"legs">>, <<"legs", "wings">>}

Range(s) == {s[i] : i \in 1..Len(s)}

\* read_csv: every row maps each header name to its cell
RowsOver(features, values) ==
    {[c \in {label_col} \cup Range(features) |->
        IF c = label_col THEN l ELSE v[c]] :
        l \in Labels, v \in [Range(features) -> values]}

SeqsUpTo(S, n) == UNION {[1..k -> S] : k \in 0..n}

----------------------------------------------------------------------------
(* str.strip *)

RECURSIVE lstrip(_)
lstrip(s) ==
    IF s # <<>> /\ Head(s) \in Whitespace THEN lstrip(Tail(s)) ELSE s

RECURSIVE rstrip(_)
rstrip(s) ==
    IF s # <<>> /\ s[Len(s)] \in Whitespace
    THEN rstrip(SubSeq(s, 1, Len(s) - 1))
    ELSE s

strip(s) == rstrip(lstrip(s))

----------------------------------------------------------------------------
(* TreeNode *)

TreeNode(question, left, right, answers) ==
    [question |-> question, left |-> left, right |-> right,
     answers |-> IF answers # <<>> THEN answers ELSE <<>>]

is_leaf(n) == n.answers # <<>>

----------------------------------------------------------------------------
(* all_same_values *)

all_same_values(rs, col_names) ==
    IF rs = <<>> THEN TRUE
    ELSE \A r \in 2..Len(rs) :
            \A i \in 1..Len(col_names) :
                rs[r][col_names[i]] = rs[1][col_names[i]]

----------------------------------------------------------------------------
(* best_split *)

count_of(rs, classification, digit) ==
    Cardinality({r \in 1..Len(rs) : strip(rs[r][classification]) = <<digit>>})

abs(n) == IF n < 0 THEN -n ELSE n

\* the groups may be empty
valid_split_loose(count_0, count_1, total) ==
    count_0 < total /\ count_1 < total

\* a split is valid when both groups are non-empty and smaller than the total
valid_split(count_0, count_1, total) ==
    0 < count_0 /\ count_0 < total /\ 0 < count_1 /\ count_1 < total

\* balance <= best_balance in place of balance < best_balance
improves_or_ties(balance, best_balance) ==
    best_balance = None \/ balance <= best_balance[1]

\* balance < best_balance; best_balance None stands for float('inf')
improves(balance, best_balance) ==
    best_balance = None \/ balance < best_balance[1]

RECURSIVE best_split_loop(_, _, _, _, _)
best_split_loop(rs, cls, i, best_classification, best_balance) ==
    IF i > Len(cls) THEN best_classification
    ELSE LET classification == cls[i]
             count_0 == count_of(rs, classification, "0")
             count_1 == count_of(rs, classification, "1")
             balance == abs(count_0 - count_1)
         IN  IF valid_split(count_0, count_1, Len(rs))
                /\ improves(balance, best_balance)
             THEN best_split_loop(rs, cls, i + 1, Some(classification), Some(balance))
             ELSE best_split_loop(rs, cls, i + 1, best_classification, best_balance)

best_split(rs, cls) == best_split_loop(rs, cls, 1, None, None)

----------------------------------------------------------------------------
(* build_tree *)

labels_of(rs, label) == [r \in 1..Len(rs) |-> rs[r][label]]

left_split(rs, best) ==
    SelectSeq(rs, LAMBDA row : strip(row[best]) = <<"0">>)

\* everything that is not "0" goes right
right_split_rest(rs, best) ==
    SelectSeq(rs, LAMBDA row : strip(row[best]) # <<"0">>)

right_split(rs, best) ==
    SelectSeq(rs, LAMBDA row : strip(row[best]) = <<"1">>)

remaining_classifications(cls, best) ==
    SelectSeq(cls, LAMBDA c : c # best)

\* the node is labelled with the last candidate, not the chosen one
internal_node_last(cls, best, left_child, right_child) ==
    TreeNode(Some(cls[Len(cls)]), Some(left_child), Some(right_child), None)

internal_node(cls, best, left_child, right_child) ==
    TreeNode(Some(best), Some(left_child), Some(right_child), None)

\* The left recursive call is made with the caller's own rows and candidate
\* list. That recursion never ends; it is cut after RecursionCut calls so that
\* the tree it builds is a finite value.
RecursionCut == 6

RECURSIVE build_tree_same_args_cut(_, _, _, _)
build_tree_same_args_cut(rs, cls, label, fuel) ==
    IF rs = <<>> THEN TreeNode(None, None, None, <<>>)
    ELSE IF all_same_values(rs, <<label>> \o cls) \/ fuel = 0
    THEN TreeNode(None, None, None, labels_of(rs, label))
    ELSE LET best_classification == best_split(rs, cls)
         IN  IF cls = <<>> \/ falsy(best_classification)
             THEN TreeNode(None, None, None, labels_of(rs, label))
             ELSE LET best == best_classification[1]
                      rem == remaining_classifications(cls, best)
                  IN  internal_node(cls, best,
                          build_tree_same_args_cut(rs, cls, label, fuel - 1),
                          build_tree_same_args_cut(right_split(rs, best), rem,
                                                   label, fuel - 1))

build_tree_same_args(rs, cls, label) ==
    build_tree_same_args_cut(rs, cls, label, RecursionCut)

RECURSIVE build_tree(_, _, _)
build_tree(rs, cls, label) ==
    IF rs = <<>> THEN TreeNode(None, None, None, <<>>)
    ELSE IF all_same_values(rs, <<label>> \o cls)
    THEN TreeNode(None, None, None, labels_of(rs, label))
    ELSE LET best_classification == best_split(rs, cls)
         IN  IF cls = <<>> \/ falsy(best_classification)
             THEN TreeNode(None, None, None, labels_of(rs, label))
             ELSE LET best == best_classification[1]
                      rem == remaining_classifications(cls, best)
                  IN  internal_node(cls, best,
                          build_tree(left_split(rs, best), rem, label),
                          build_tree(right_split(rs, best), rem, label))

----------------------------------------------------------------------------
(* main: build the tree *)

NoTree == TreeNode(None, None, None, <<>>)

Idle ==
    /\ node = None
    /\ guesses = 0
    /\ guessed_elements = <<>>
    /\ idx = 0
    /\ outcome = "none"
    /\ winner = None
    /\ transcript = <<>>
    /\ games = 0
    /\ previous = None

InitBuild ==
    /\ classifications \in FeatureLists
    /\ rows \in SeqsUpTo(RowsOver(classifications, RawValues), MaxRows)
    /\ tree = NoTree
    /\ pc = "loaded"
    /\ Idle

BuildTree ==
    /\ pc = "loaded"
    /\ tree' = build_tree(rows, classifications, label_col)
    /\ pc' = "main"
    /\ UNCHANGED <<rows, classifications, node, guesses, guessed_elements,
                   idx, outcome, winner, transcript, games, previous>>

NextBuild == BuildTree

SpecBuild == InitBuild /\ [][NextBuild]_vars

----------------------------------------------------------------------------
(* play_game and the replay loop of main. The sessions are those of        *)
(* play_game called on the tree build_tree returned; export_tree_to_png    *)
(* only renders the tree and is left out.                                  *)

Init ==
    /\ classifications \in GameFeatureLists
    /\ rows \in SeqsUpTo(RowsOver(classifications, BinaryValues), MaxGameRows)
    /\ tree = NoTree
    /\ pc = "loaded"
    /\ Idle

\* node = node.left if the answer is yes
next_node_swapped(n, answer) == IF answer THEN n.left ELSE n.right

\* node = node.right if answer else node.left
next_node(n, answer) == IF answer THEN n.right ELSE n.left

\* the for loop has no break
loop_ends_exhausted(answer, asked, n) == asked = n

\* the for loop ends at the first affirmation or when the list is exhausted
loop_ends(answer, asked, n) == answer \/ asked = n

StartGame ==
    /\ pc = "main"
    /\ node' = Some(tree)
    /\ guesses' = 0
    /\ guessed_elements' = <<>>
    /\ idx' = 0
    /\ outcome' = "none"
    /\ winner' = None
    /\ transcript' = <<>>
    /\ games' = games + 1
    /\ pc' = "while"
    /\ UNCHANGED <<rows, classifications, tree, previous>>

\* the traversal moves the tree itself instead of a local cursor
AskQuestionMovingTree ==
    /\ pc = "while"
    /\ node # None
    /\ ~is_leaf(node[1])
    /\ \E answer \in BOOLEAN :
        /\ transcript' = Append(transcript,
               [kind |-> "feature", what |-> node[1].question, reply |-> answer])
        /\ node' = next_node(node[1], answer)
        /\ tree' = IF node' = None THEN tree ELSE node'[1]
    /\ guesses' = guesses + 1
    /\ UNCHANGED <<rows, classifications, pc, guessed_elements, idx,
                   outcome, winner, games, previous>>

AskQuestion ==
    /\ pc = "while"
    /\ node # None
    /\ ~is_leaf(node[1])
    /\ \E answer \in BOOLEAN :
        /\ transcript' = Append(transcript,
               [kind |-> "feature", what |-> node[1].question, reply |-> answer])
        /\ node' = next_node(node[1], answer)
    /\ guesses' = guesses + 1
    /\ UNCHANGED <<rows, classifications, tree, pc, guessed_elements, idx,
                   outcome, winner, games, previous>>

\* node is None: node.is_leaf() raises AttributeError
AttributeError ==
    /\ pc = "while"
    /\ node = None
    /\ pc' = "error"
    /\ outcome' = "error"
    /\ UNCHANGED <<rows, classifications, tree, node, guesses,
                   guessed_elements, idx, winner, transcript, games,
                   previous>>

ReachLeaf ==
    /\ pc = "while"
    /\ node # None
    /\ is_leaf(node[1])
    /\ guessed_elements' = node[1].answers
    /\ IF Len(node[1].answers) >= 1
       THEN pc' = "confirm" /\ outcome' = outcome
       ELSE pc' = "again" /\ outcome' = "no_guess"
    /\ UNCHANGED <<rows, classifications, tree, node, guesses, idx, winner,
                   transcript, games, previous>>

\* one confirmation question: the single-answer branch and one iteration of
\* the for loop of the multi-answer branch
Confirm ==
    /\ pc = "confirm"
    /\ \E answer \in BOOLEAN :
        LET element == guessed_elements[idx + 1]
            n == Len(guessed_elements)
        IN  /\ transcript' = Append(transcript,
                   [kind |-> "guess", what |-> Some(element), reply |-> answer])
            /\ outcome' = IF answer THEN "success"
                          ELSE IF idx + 1 = n /\ outcome = "none" THEN "failure"
                          ELSE outcome
            /\ winner' = IF answer THEN Some(element) ELSE winner
            /\ pc' = IF loop_ends(answer, idx + 1, n) THEN "again" ELSE "confirm"
    /\ guesses' = guesses + 1
    /\ idx' = idx + 1
    /\ UNCHANGED <<rows, classifications, tree, node, guessed_elements, games,
                   previous>>

\* previous keeps what the session that just ended showed the player: the
\* replies given, the outcome and the count printed.
PlayAgain ==
    /\ pc = "again"
    /\ \E again \in BOOLEAN :
        IF again THEN games < MaxGames /\ pc' = "main" ELSE pc' = "exit"
    /\ previous' = Some([replies |-> [i \in 1..Len(transcript) |-> transcript[i].reply],
                         outcome |-> outcome, guesses |-> guesses])
    /\ UNCHANGED <<rows, classifications, tree, node, guesses,
                   guessed_elements, idx, outcome, winner, transcript, games>>

Next ==
    \/ BuildTree
    \/ StartGame
    \/ AskQuestion
    \/ AttributeError
    \/ ReachLeaf
    \/ Confirm
    \/ PlayAgain

Spec == Init /\ [][Next]_vars

----------------------------------------------------------------------------
(* Tree measures used by the properties *)

childless(n) == n.left = None /\ n.right = None

Max(a, b) == IF a >= b THEN a ELSE b

\* number of nodes on the longest root-to-leaf path
RECURSIVE Depth(_)
Depth(n) ==
    1 + Max(IF n.left = None THEN 0 ELSE Depth(n.left[1]),
            IF n.right = None THEN 0 ELSE Depth(n.right[1]))

\* the childless nodes, each with the questions and directions leading to it
RECURSIVE LeafPaths(_, _)
LeafPaths(n, path) ==
    IF childless(n) THEN {[path |-> path, answers |-> n.answers]}
    ELSE (IF n.left = None THEN {}
          ELSE LeafPaths(n.left[1], Append(path, [q |-> n.question, dir |-> "0"])))
         \cup
         (IF n.right = None THEN {}
          ELSE LeafPaths(n.right[1], Append(path, [q |-> n.question, dir |-> "1"])))

RECURSIVE WellFormed(_)
WellFormed(n) ==
    \/ /\ n.question # None
       /\ n.left # None
       /\ n.right # None
       /\ n.answers = <<>>
       /\ ~is_leaf(n)
       /\ WellFormed(n.left[1])
       /\ WellFormed(n.right[1])
    \/ /\ n.question = None
       /\ childless(n)
       /\ Len(n.answers) >= 1
       /\ is_leaf(n)

Built == pc = "main"

----------------------------------------------------------------------------
(* C1 *)

\* C1: a session played on the degenerate empty leaf that build_tree returns
\* for an empty row set asks nothing, consumes no answer, keeps the counter
\* at 0, raises no error and ends with the outcome "could not make a guess".
C1_EmptyTreeNoGuess ==
    (rows = <<>> /\ pc # "loaded") =>
        /\ transcript = <<>>
        /\ guesses = 0
        /\ pc # "error"
        /\ (games > 0 /\ pc \in {"again", "main", "exit"} => outcome = "no_guess")

----------------------------------------------------------------------------
(* C2 *)

\* C2: the tree build_tree returns has depth at most the number of input
\* features plus one. (That build_tree returns at all is what BuildTree
\* computing a successor for every loaded input shows.)
C2_DepthBound ==
    Built => Depth(tree) <= Len(classifications) + 1

C2_Witness ==
    /\ Built
    /\ Len(classifications) = 2
    /\ Depth(tree) = 3

----------------------------------------------------------------------------
(* C3 *)

\* C3: along any root-to-leaf path of the built tree no feature is the
\* question of two nodes, and every question is one of the features passed
\* to build_tree.
C3_NoRepeatedQuestion ==
    Built =>
        \A lp \in LeafPaths(tree, <<>>) :
            /\ \A i \in 1..Len(lp.path) :
                  /\ lp.path[i].q # None
                  /\ lp.path[i].q[1] \in Range(classifications)
            /\ \A i, j \in 1..Len(lp.path) :
                  i # j => lp.path[i].q # lp.path[j].q

C3_Witness ==
    /\ Built
    /\ \E lp \in LeafPaths(tree, <<>>) : Len(lp.path) = 2

----------------------------------------------------------------------------
(* C4 *)

Count(rs, f, digit) ==
    Cardinality({r \in 1..Len(rs) : strip(rs[r][f]) = <<digit>>})

Usable(rs, f) ==
    LET zeros == Count(rs, f, "0")
        ones == Count(rs, f, "1")
    IN  zeros > 0 /\ ones > 0 /\ zeros < Len(rs) /\ ones < Len(rs)

Imbalance(rs, f) ==
    LET zeros == Count(rs, f, "0")
        ones == Count(rs, f, "1")
    IN  IF zeros >= ones THEN zeros - ones ELSE ones - zeros

\* C4: best_split returns the earliest feature, in the supplied order, among
\* the usable features of minimal imbalance, and returns no feature exactly
\* when no candidate is usable; a feature that is "0" on all rows or "1" on
\* all rows is never returned.
C4_BestSplit ==
    Built =>
    LET result == best_split(rows, classifications)
        n == Len(classifications)
        usable == [i \in 1..n |-> Usable(rows, classifications[i])]
        imbalance == [i \in 1..n |-> Imbalance(rows, classifications[i])]
        chosen(i) ==
            /\ usable[i]
            /\ \A j \in 1..n :
                  usable[j] =>
                      \/ imbalance[i] < imbalance[j]
                      \/ imbalance[i] = imbalance[j] /\ i <= j
    IN  /\ (result = None) <=> (\A i \in 1..n : ~usable[i])
        /\ result # None =>
              \E i \in 1..n : chosen(i) /\ result = Some(classifications[i])
        /\ \A i \in 1..n :
              (Count(rows, classifications[i], "0") = Len(rows)
                  \/ Count(rows, classifications[i], "1") = Len(rows))
                  => result # Some(classifications[i])

\* two usable candidates of different imbalance, the better one second
C4_Witness ==
    /\ Built
    /\ Len(classifications) = 2
    /\ classifications[1] # classifications[2]
    /\ Usable(rows, classifications[1])
    /\ Usable(rows, classifications[2])
    /\ Imbalance(rows, classifications[2]) < Imbalance(rows, classifications[1])
    /\ best_split(rows, classifications) = Some(classifications[2])

----------------------------------------------------------------------------
(* C5 *)

Matches(row, path) ==
    \A i \in 1..Len(path) : strip(row[path[i].q[1]]) = <<path[i].dir>>

Agree(rs, cols) ==
    \A a, b \in 1..Len(rs) : \A c \in cols : rs[a][c] = rs[b][c]

\* C5: in the tree built from a non-empty row set every leaf's answers are
\* non-empty and are, in input order and one per row, the labels of exactly
\* the rows whose stripped value is "0" at every question left on the way
\* down and "1" at every question right; rows agreeing on the label and on
\* every feature give a single leaf.
C5_LeafAnswers ==
    (Built /\ rows # <<>>) =>
        /\ \A lp \in LeafPaths(tree, <<>>) :
              /\ lp.answers # <<>>
              /\ LET reached == SelectSeq(rows, LAMBDA row : Matches(row, lp.path))
                 IN  lp.answers = [r \in 1..Len(reached) |-> reached[r][label_col]]
        /\ Agree(rows, {label_col} \cup Range(classifications)) =>
              /\ childless(tree)
              /\ tree.answers = [r \in 1..Len(rows) |-> rows[r][label_col]]

\* cat/legs=1 and dog/legs=0 plus a row that is neither: one node on legs
\* with left = [dog], right = [cat]
C5_Witness ==
    /\ Built
    /\ classifications = <<"legs">>
    /\ Len(rows) = 3
    /\ rows[1] = [label |-> "cat", legs |-> <<"1">>]
    /\ rows[2] = [label |-> "dog", legs |-> <<" ", "0">>]
    /\ rows[3].legs = <<"x">>
    /\ tree.question = Some("legs")
    /\ tree.left[1].answers = <<"dog">>
    /\ tree.right[1].answers = <<"cat">>

----------------------------------------------------------------------------
(* C8 *)

\* C8: for a non-empty, non-uniform row set build_tree returns a leaf only
\* if the candidate list is empty or best_split finds no usable feature;
\* whenever best_split returns a feature, whatever its name, the tree is an
\* internal node asking that feature whose children are built from the "0"
\* and "1" subsets with the feature removed from the candidates.
C8_SplitWheneverUsable ==
    (Built /\ rows # <<>>
        /\ ~Agree(rows, {label_col} \cup Range(classifications))) =>
        LET result == best_split(rows, classifications)
        IN  /\ childless(tree) => (classifications = <<>> \/ result = None)
            /\ result # None =>
                  LET rem == SelectSeq(classifications, LAMBDA c : c # result[1])
                      zeros == SelectSeq(rows, LAMBDA row : strip(row[result[1]]) = <<"0">>)
                      ones == SelectSeq(rows, LAMBDA row : strip(row[result[1]]) = <<"1">>)
                  IN  /\ tree.question = result
                      /\ tree.left = Some(build_tree(zeros, rem, label_col))
                      /\ tree.right = Some(build_tree(ones, rem, label_col))

----------------------------------------------------------------------------
(* C9 *)

\* C9: in the tree built from a non-empty row set every node is either an
\* internal node (a question, two children, no answers) or a leaf (at least
\* one answer, no question, no children), so is_leaf() is true exactly on the
\* childless nodes and a node that is not a leaf always has both children.
C9_NoDegenerateLeaf ==
    (Built /\ rows # <<>>) => WellFormed(tree)

\* a split on a feature that is neither "0" nor "1" on some row
C9_Witness ==
    /\ Built
    /\ ~childless(tree)
    /\ \E r \in 1..Len(rows) : rows[r][tree.question[1]] = <<"x">>

----------------------------------------------------------------------------
(* Sessions *)

FeatureEntries == SelectSeq(transcript, LAMBDA e : e.kind = "feature")
GuessEntries == SelectSeq(transcript, LAMBDA e : e.kind = "guess")

AtLeaf == node # None /\ Len(node[1].answers) >= 1

Ended == games > 0 /\ pc \in {"again", "main", "exit"}

----------------------------------------------------------------------------
(* C6 *)

\* C6: at a leaf with N >= 1 answers reached after d feature questions the
\* engine asks about the answers in stored order, one question each, and
\* stops at the first affirmation: success on the k-th answer with counter
\* d + k, or failure with counter d + N when none is affirmed.
C6_Disambiguation ==
    (games > 0 /\ AtLeaf /\ pc \in {"confirm", "again", "main", "exit"}) =>
        LET answers == node[1].answers
            N == Len(answers)
            G == GuessEntries
            k == Len(G)
            d == Len(FeatureEntries)
        IN  /\ k <= N
            /\ \A j \in 1..k : G[j].what = Some(answers[j])
            /\ \A j \in 1..(k - 1) : ~G[j].reply
            /\ guesses = d + k
            /\ (k >= 1 /\ G[k].reply) =>
                  /\ outcome = "success"
                  /\ winner = Some(answers[k])
                  /\ pc # "confirm"
            /\ (k = N /\ ~G[k].reply) =>
                  /\ outcome = "failure"
                  /\ guesses = d + N
                  /\ pc # "confirm"
            /\ (k < N /\ (k = 0 \/ ~G[k].reply)) =>
                  /\ outcome = "none"
                  /\ pc = "confirm"

\* answers [cat, dog] after one feature question, replies no then yes
C6_Witness ==
    /\ pc = "again"
    /\ AtLeaf
    /\ node[1].answers = <<"cat", "dog">>
    /\ Len(FeatureEntries) = 1
    /\ Len(GuessEntries) = 2
    /\ ~GuessEntries[1].reply
    /\ GuessEntries[2].reply
    /\ outcome = "success"
    /\ winner = Some(node[1].answers[2])
    /\ guesses = 3

----------------------------------------------------------------------------
(* C7 *)

\* C7: sessions never modify the built tree, every session starts at its
\* root with counter 0, and a session given the same replies as the session
\* before it ends with the same outcome and the same count.
C7_TreeNotModified ==
    [][/\ pc # "loaded" => tree' = tree
       /\ (pc = "main" /\ pc' = "while") =>
              /\ node' = Some(tree)
              /\ guesses' = 0
              /\ transcript' = <<>>
       /\ (previous' # None /\ pc' = "again"
             /\ previous'[1].replies = [i \in 1..Len(transcript') |-> transcript'[i].reply]) =>
              /\ outcome' = previous'[1].outcome
              /\ guesses' = previous'[1].guesses]_vars

\* a second session that ended as the first one did, two questions deep
C7_Witness ==
    /\ games = 2
    /\ pc = "again"
    /\ previous # None
    /\ previous[1].replies = [i \in 1..Len(transcript) |-> transcript[i].reply]
    /\ Len(FeatureEntries) = 2
    /\ outcome = "success"

----------------------------------------------------------------------------
(* C10 *)

AllBinary ==
    \A r \in 1..Len(rows) : \A f \in Range(classifications) :
        strip(rows[r][f]) \in {<<"0">>, <<"1">>}

\* every feature question so far was answered as row r answers it
FollowsRow(r) ==
    \A i \in 1..Len(FeatureEntries) :
        FeatureEntries[i].reply = (strip(rows[r][FeatureEntries[i].what[1]]) = <<"1">>)

\* every confirmation so far was affirmed exactly for the label of row r
ConfirmsRow(r) ==
    \A i \in 1..Len(GuessEntries) :
        GuessEntries[i].reply = (GuessEntries[i].what = Some(rows[r][label_col]))

\* C10: on the tree built from a non-empty row set whose feature values all
\* strip to "0" or "1", a session answering the feature questions as an
\* input row r does never fails, reaches a leaf holding r's label, and, when
\* only r's label is affirmed, ends in success within (number of features +
\* number of rows) questions.
C10_RowIsGuessed ==
    (rows # <<>> /\ AllBinary /\ games > 0) =>
        \A r \in 1..Len(rows) :
            FollowsRow(r) =>
                /\ node # None
                /\ pc # "error"
                /\ pc # "while" =>
                      \E a \in 1..Len(node[1].answers) :
                          node[1].answers[a] = rows[r][label_col]
                /\ (Ended /\ ConfirmsRow(r)) =>
                      /\ outcome = "success"
                      /\ winner = Some(rows[r][label_col])
                      /\ guesses <= Len(classifications) + Len(rows)

\* the third row is guessed after a feature question and two confirmations
C10_Witness ==
    /\ Len(rows) = 3
    /\ games > 0
    /\ pc = "again"
    /\ FollowsRow(3)
    /\ ConfirmsRow(3)
    /\ Len(FeatureEntries) >= 1
    /\ Len(GuessEntries) = 2
    /\ outcome = "success"

====
